---- MODULE Spec2Model ----
(***************************************************************************)
(* Customer / product record lifecycle of the data-warehouse dashboard:    *)
(* merge_customers, archive_*_by_date, archive_*_by_ids, unarchive_* of    *)
(* app/data_management.py, run against the tables dw.dim_customer,         *)
(* dw.dim_product, dw.fct_invoice and dw.fct_sales_line.                   *)
(*                                                                         *)
(* Spec   : every call is one step (its statements and its commit).        *)
(* SpecTx : merge_customers statement by statement on several connections, *)
(*          with statements that can fail, under READ COMMITTED.           *)
(* SpecRace: two merges of one source started together on two connections. *)
(*                                                                         *)
(* The pure functions (name matching of app/data_management.py and         *)
(* is_second_working_day of scripts/generate_monthly_statements.py) have   *)
(* a specification each: Init draws the arguments, the step applies the    *)
(* function: SpecNormalize, SpecSimilarity, SpecClassify, SpecMatch,       *)
(* SpecCalendar.                                                           *)
(*                                                                         *)
(* SpecQueue: process_queue of src/reporting/sales_report.py on two        *)
(*          connections, statement by statement, over dw.report_queue.     *)
(***************************************************************************)
EXTENDS Integers, Sequences, FiniteSets, TLC

\* ---- bounds of the model -------------------------------------------------
NumCustomers  == 2   \* rows of dw.dim_customer, customer_id 1..NumCustomers
NumProducts   == 1   \* rows of dw.dim_product, product_id 1..NumProducts
NumInvoices   == 1   \* rows of dw.fct_invoice
NumSalesLines == 2   \* rows of dw.fct_sales_line
MaxDate       == 2   \* invoice_date ranges over 1..MaxDate
MaxIds        == 2   \* longest id list passed to archive_*_by_ids
NumConns      == 2   \* database connections open at the same time

\* ---- value spaces --------------------------------------------------------
NULL == 0                                 \* SQL NULL of merged_into
Customers      == 1..NumCustomers         \* customer_id of existing records
Products       == 1..NumProducts          \* product_id of existing records
CustomerIdArgs == 1..(NumCustomers + 1)   \* ids a caller can pass (one unknown)
ProductIdArgs  == 1..(NumProducts + 1)
Dates          == 1..MaxDate
Conns          == 1..NumConns
CutoffDates    == 1..(MaxDate + 1)
Archived       == {"true", "false", "null"}   \* boolean column, nullable

RECURSIVE SeqsUpTo(_, _)
SeqsUpTo(S, n) ==
    IF n = 0 THEN {<<>>}
    ELSE LET shorter == SeqsUpTo(S, n - 1)
         IN  shorter \cup {Append(s, x) : s \in {t \in shorter : Len(t) = n - 1}, x \in S}

Range(s) == {s[i] : i \in DOMAIN s}

VARIABLES
    dim_customer,    \* customer_id -> [archived, merged_into]
    dim_product,     \* product_id -> archived
    fct_invoice,     \* row -> [customer_id, invoice_date]
    fct_sales_line,  \* row -> [customer_id, product_id, invoice_date]
    last,            \* the last call: operation, arguments, return value
    conn,            \* per connection: the merge_customers call in progress on it
    report_queue,    \* id -> row of dw.report_queue: status, row lock, pending write
    outbox,          \* the emails SendGrid accepted, in order: [id, conn]
    run              \* per connection: the process_queue call in progress on it

store == <<dim_customer, dim_product, fct_invoice, fct_sales_line>>
reports == <<report_queue, outbox, run>>
vars  == <<dim_customer, dim_product, fct_invoice, fct_sales_line, last, conn,
           report_queue, outbox, run>>

\* ---- SQL statements of app/data_management.py ----------------------------
\* variant: the UPDATE is issued with the two parameters swapped, so it
\* matches target rows and leaves the source's rows where they are
RepointCustomer_Swapped(tbl, src, tgt) ==
    [r \in DOMAIN tbl |->
        IF tbl[r].customer_id = tgt THEN [tbl[r] EXCEPT !.customer_id = src]
                                    ELSE tbl[r]]

\* variant: the UPDATE has no WHERE clause
RepointCustomer_EveryRow(tbl, src, tgt) ==
    [r \in DOMAIN tbl |-> [tbl[r] EXCEPT !.customer_id = tgt]]

\* UPDATE <fact table> SET customer_id = tgt WHERE customer_id = src
RepointCustomer(tbl, src, tgt) ==
    [r \in DOMAIN tbl |->
        IF tbl[r].customer_id = src THEN [tbl[r] EXCEPT !.customer_id = tgt]
                                    ELSE tbl[r]]

\* cur.rowcount of that UPDATE: the rows its WHERE clause matched
RepointRowCount(tbl, src) ==
    Cardinality({r \in DOMAIN tbl : tbl[r].customer_id = src})

\* variant: a record that is already merged keeps its merged_into
\* (... AND merged_into IS NULL)
MarkMerged_KeepFirst(dc, src, tgt) ==
    [c \in DOMAIN dc |->
        IF c = src /\ dc[c].merged_into = NULL
        THEN [dc[c] EXCEPT !.merged_into = tgt, !.archived = "true"]
        ELSE dc[c]]

\* variant: the UPDATE sets merged_into only
MarkMerged_NoArchive(dc, src, tgt) ==
    [c \in DOMAIN dc |->
        IF c = src THEN [dc[c] EXCEPT !.merged_into = tgt] ELSE dc[c]]

\* UPDATE dw.dim_customer SET merged_into = tgt, archived = true
\*  WHERE customer_id = src
MarkMerged(dc, src, tgt) ==
    [c \in DOMAIN dc |->
        IF c = src THEN [dc[c] EXCEPT !.merged_into = tgt, !.archived = "true"]
                   ELSE dc[c]]

\* (archived = false OR archived IS NULL)
NotArchived(a) == a = "false" \/ a = "null"

\* variant: the activity test compares with > instead of >=
HasActivity_Strict(tbl, col, id, d) ==
    \E r \in DOMAIN tbl : tbl[r][col] = id /\ tbl[r].invoice_date > d

\* EXISTS (SELECT 1 FROM <fact table> t WHERE t.<col> = id AND t.invoice_date >= d)
HasActivity(tbl, col, id, d) ==
    \E r \in DOMAIN tbl : tbl[r][col] = id /\ tbl[r].invoice_date >= d

\* the WHERE clause of archive_customers_by_date
CustomerToArchive(dc, inv, sl, c, d) ==
    /\ NotArchived(dc[c].archived)
    /\ ~HasActivity(inv, "customer_id", c, d)
    /\ ~HasActivity(sl, "customer_id", c, d)

\* the WHERE clause of archive_products_by_date
ProductToArchive(dp, sl, p, d) ==
    /\ NotArchived(dp[p])
    /\ ~HasActivity(sl, "product_id", p, d)

\* variant: the WHERE clause compares with the first id of the list only
MatchedByIds_FirstOnly(tbl, ids) == {k \in DOMAIN tbl : ids # <<>> /\ k = ids[1]}

\* WHERE customer_id = ANY(ids) / WHERE product_id = ANY(ids)
MatchedByIds(tbl, ids) == {k \in DOMAIN tbl : k \in Range(ids)}

\* SELECT customer_id FROM dw.dim_customer WHERE archived = false
ActiveCustomers(dc) == {c \in DOMAIN dc : dc[c].archived = "false"}
ActiveProducts(dp)  == {p \in DOMAIN dp : dp[p] = "false"}

\* the record of a call: what was called with what, what it returned, and
\* which operation the caller had run just before it
Call(op, args, ret) ==
    [op |-> op, args |-> args, ret |-> ret, after |-> last.op]

\* a connection with no transaction open: nothing written, nothing locked
Idle == [pc |-> "idle", source_id |-> NULL, target_id |-> NULL, updated |-> 0,
         w_invoice |-> {}, w_sales_line |-> {}, w_customer |-> {}]

\* dw.report_queue is not part of the record lifecycle
NoReports == report_queue = <<>> /\ outbox = <<>> /\ run = <<>>

\* ---- initial state -------------------------------------------------------
\* The fact tables as loaded by the ingestion: row r of dw.fct_invoice is dated
\* InvoiceDate(r), row r of dw.fct_sales_line is dated SalesLineDate(r) and sells
\* SalesLineProduct(r); which customer a row belongs to is free.  Record 1 of
\* each dimension table predates the archived column (archived IS NULL).
InvoiceDate(r)      == ((r - 1) % MaxDate) + 1
SalesLineDate(r)    == MaxDate - ((r - 1) % MaxDate)
SalesLineProduct(r) == ((r - 1) % NumProducts) + 1
InitArchived(k)     == IF k = 1 THEN "null" ELSE "false"

Init ==
    /\ dim_customer = [c \in Customers |-> [archived |-> InitArchived(c), merged_into |-> NULL]]
    /\ dim_product = [p \in Products |-> InitArchived(p)]
    /\ \E owner \in [1..NumInvoices -> Customers] :
          fct_invoice = [r \in 1..NumInvoices |->
                            [customer_id |-> owner[r], invoice_date |-> InvoiceDate(r)]]
    /\ \E owner \in [1..NumSalesLines -> Customers] :
          fct_sales_line = [r \in 1..NumSalesLines |->
                               [customer_id |-> owner[r], product_id |-> SalesLineProduct(r),
                                invoice_date |-> SalesLineDate(r)]]
    /\ last = [op |-> "none", args |-> <<>>, ret |-> 0, after |-> "none"]
    /\ conn = [k \in Conns |-> Idle]
    /\ NoReports

\* ---- operations (one call = one transaction, committed at its end) -------
\* variant: "updated = cur.rowcount" after the second UPDATE instead of "+="
merge_customers_LastCount(source_id, target_id) ==
    LET updated == RepointRowCount(fct_sales_line, source_id)
    IN  /\ fct_invoice' = RepointCustomer(fct_invoice, source_id, target_id)
        /\ fct_sales_line' = RepointCustomer(fct_sales_line, source_id, target_id)
        /\ dim_customer' = MarkMerged(dim_customer, source_id, target_id)
        /\ last' = Call("merge_customers", <<source_id, target_id>>, updated)
        /\ UNCHANGED <<dim_product, conn, reports>>

\* variant: a merge of a record into itself is refused and changes nothing
merge_customers_RefusesSelf(source_id, target_id) ==
    IF source_id = target_id
    THEN /\ last' = Call("merge_customers", <<source_id, target_id>>, 0)
         /\ UNCHANGED <<store, conn, reports>>
    ELSE /\ fct_invoice' = RepointCustomer(fct_invoice, source_id, target_id)
         /\ fct_sales_line' = RepointCustomer(fct_sales_line, source_id, target_id)
         /\ dim_customer' = MarkMerged(dim_customer, source_id, target_id)
         /\ last' = Call("merge_customers", <<source_id, target_id>>,
                         RepointRowCount(fct_invoice, source_id)
                            + RepointRowCount(fct_sales_line, source_id))
         /\ UNCHANGED <<dim_product, conn, reports>>

\* variant: the rows an earlier merge of the source moved are moved along
merge_customers_MovesMergedRows(source_id, target_id) ==
    LET earlier == IF source_id \in Customers THEN dim_customer[source_id].merged_into ELSE NULL
        from    == {source_id, earlier} \ {NULL}
        Move(tbl) == [r \in DOMAIN tbl |->
                        IF tbl[r].customer_id \in from
                        THEN [tbl[r] EXCEPT !.customer_id = target_id] ELSE tbl[r]]
        updated == Cardinality({r \in DOMAIN fct_invoice : fct_invoice[r].customer_id \in from})
                     + Cardinality({r \in DOMAIN fct_sales_line :
                                       fct_sales_line[r].customer_id \in from})
    IN  /\ fct_invoice' = Move(fct_invoice)
        /\ fct_sales_line' = Move(fct_sales_line)
        /\ dim_customer' = MarkMerged(dim_customer, source_id, target_id)
        /\ last' = Call("merge_customers", <<source_id, target_id>>, updated)
        /\ UNCHANGED <<dim_product, conn, reports>>

merge_customers(source_id, target_id) ==
    LET updated == RepointRowCount(fct_invoice, source_id)
                     + RepointRowCount(fct_sales_line, source_id)
    IN  /\ fct_invoice' = RepointCustomer(fct_invoice, source_id, target_id)
        /\ fct_sales_line' = RepointCustomer(fct_sales_line, source_id, target_id)
        /\ dim_customer' = MarkMerged(dim_customer, source_id, target_id)
        /\ last' = Call("merge_customers", <<source_id, target_id>>, updated)
        /\ UNCHANGED <<dim_product, conn, reports>>

archive_customers_by_date(before_date) ==
    LET hit == {c \in Customers :
                  CustomerToArchive(dim_customer, fct_invoice, fct_sales_line, c, before_date)}
    IN  /\ dim_customer' = [c \in Customers |->
                              IF c \in hit THEN [dim_customer[c] EXCEPT !.archived = "true"]
                                           ELSE dim_customer[c]]
        /\ last' = Call("archive_customers_by_date", <<before_date>>, Cardinality(hit))
        /\ UNCHANGED <<dim_product, fct_invoice, fct_sales_line, conn, reports>>

archive_products_by_date(before_date) ==
    LET hit == {p \in Products : ProductToArchive(dim_product, fct_sales_line, p, before_date)}
    IN  /\ dim_product' = [p \in Products |-> IF p \in hit THEN "true" ELSE dim_product[p]]
        /\ last' = Call("archive_products_by_date", <<before_date>>, Cardinality(hit))
        /\ UNCHANGED <<dim_customer, fct_invoice, fct_sales_line, conn, reports>>

archive_customers_by_ids(customer_ids) ==
    IF customer_ids = <<>>
    THEN /\ last' = Call("archive_customers_by_ids", <<customer_ids>>, 0)
         /\ UNCHANGED <<store, conn, reports>>
    ELSE LET hit == MatchedByIds(dim_customer, customer_ids)
         IN  /\ dim_customer' = [c \in Customers |->
                                   IF c \in hit THEN [dim_customer[c] EXCEPT !.archived = "true"]
                                                ELSE dim_customer[c]]
             /\ last' = Call("archive_customers_by_ids", <<customer_ids>>, Cardinality(hit))
             /\ UNCHANGED <<dim_product, fct_invoice, fct_sales_line, conn, reports>>

archive_products_by_ids(product_ids) ==
    IF product_ids = <<>>
    THEN /\ last' = Call("archive_products_by_ids", <<product_ids>>, 0)
         /\ UNCHANGED <<store, conn, reports>>
    ELSE LET hit == MatchedByIds(dim_product, product_ids)
         IN  /\ dim_product' = [p \in Products |-> IF p \in hit THEN "true" ELSE dim_product[p]]
             /\ last' = Call("archive_products_by_ids", <<product_ids>>, Cardinality(hit))
             /\ UNCHANGED <<dim_customer, fct_invoice, fct_sales_line, conn, reports>>

\* variant: a merged record is not restored (... AND merged_into IS NULL)
unarchive_customer_UnmergedOnly(customer_id) ==
    LET hit == {c \in Customers : c = customer_id /\ dim_customer[c].merged_into = NULL}
    IN  /\ dim_customer' = [c \in Customers |->
                              IF c \in hit THEN [dim_customer[c] EXCEPT !.archived = "false"]
                                           ELSE dim_customer[c]]
        /\ last' = Call("unarchive_customer", <<customer_id>>, Cardinality(hit) > 0)
        /\ UNCHANGED <<dim_product, fct_invoice, fct_sales_line, conn, reports>>

\* variant: restoring also clears merged_into
unarchive_customer_ClearsMerge(customer_id) ==
    LET hit == {c \in Customers : c = customer_id}
    IN  /\ dim_customer' = [c \in Customers |->
                              IF c \in hit THEN [archived |-> "false", merged_into |-> NULL]
                                           ELSE dim_customer[c]]
        /\ last' = Call("unarchive_customer", <<customer_id>>, Cardinality(hit) > 0)
        /\ UNCHANGED <<dim_product, fct_invoice, fct_sales_line, conn, reports>>

unarchive_customer(customer_id) ==
    LET hit == {c \in Customers : c = customer_id}
    IN  /\ dim_customer' = [c \in Customers |->
                              IF c \in hit THEN [dim_customer[c] EXCEPT !.archived = "false"]
                                           ELSE dim_customer[c]]
        /\ last' = Call("unarchive_customer", <<customer_id>>, Cardinality(hit) > 0)
        /\ UNCHANGED <<dim_product, fct_invoice, fct_sales_line, conn, reports>>

\* variant: only an archived product is matched (... AND archived = true)
unarchive_product_ArchivedOnly(product_id) ==
    LET hit == {p \in Products : p = product_id /\ dim_product[p] = "true"}
    IN  /\ dim_product' = [p \in Products |-> IF p \in hit THEN "false" ELSE dim_product[p]]
        /\ last' = Call("unarchive_product", <<product_id>>, Cardinality(hit) > 0)
        /\ UNCHANGED <<dim_customer, fct_invoice, fct_sales_line, conn, reports>>

unarchive_product(product_id) ==
    LET hit == {p \in Products : p = product_id}
    IN  /\ dim_product' = [p \in Products |-> IF p \in hit THEN "false" ELSE dim_product[p]]
        /\ last' = Call("unarchive_product", <<product_id>>, Cardinality(hit) > 0)
        /\ UNCHANGED <<dim_customer, fct_invoice, fct_sales_line, conn, reports>>

\* variant: the customer count looks at dw.fct_invoice only
get_archive_preview_InvoicesOnly(before_date) ==
    LET customers == Cardinality({c \in Customers :
                        /\ NotArchived(dim_customer[c].archived)
                        /\ ~HasActivity(fct_invoice, "customer_id", c, before_date)})
        products  == Cardinality({p \in Products :
                        /\ NotArchived(dim_product[p])
                        /\ ~HasActivity(fct_sales_line, "product_id", p, before_date)})
    IN  /\ last' = Call("get_archive_preview", <<before_date>>, <<customers, products>>)
        /\ UNCHANGED <<store, conn, reports>>

\* two SELECT COUNT(*) queries; nothing is written
get_archive_preview(before_date) ==
    LET customers == Cardinality({c \in Customers :
                        /\ NotArchived(dim_customer[c].archived)
                        /\ ~HasActivity(fct_invoice, "customer_id", c, before_date)
                        /\ ~HasActivity(fct_sales_line, "customer_id", c, before_date)})
        products  == Cardinality({p \in Products :
                        /\ NotArchived(dim_product[p])
                        /\ ~HasActivity(fct_sales_line, "product_id", p, before_date)})
    IN  /\ last' = Call("get_archive_preview", <<before_date>>, <<customers, products>>)
        /\ UNCHANGED <<store, conn, reports>>

\* variant: the SELECT leaves out the records that were merged
get_customers_to_archive_UnmergedOnly(before_date) ==
    LET rows == {c \in Customers :
                    /\ NotArchived(dim_customer[c].archived)
                    /\ dim_customer[c].merged_into = NULL
                    /\ ~HasActivity(fct_invoice, "customer_id", c, before_date)
                    /\ ~HasActivity(fct_sales_line, "customer_id", c, before_date)}
    IN  /\ last' = Call("get_customers_to_archive", <<before_date>>, rows)
        /\ UNCHANGED <<store, conn, reports>>

\* SELECT ... ORDER BY customer_name; the rows are returned, here as their ids
get_customers_to_archive(before_date) ==
    LET rows == {c \in Customers :
                    /\ NotArchived(dim_customer[c].archived)
                    /\ ~HasActivity(fct_invoice, "customer_id", c, before_date)
                    /\ ~HasActivity(fct_sales_line, "customer_id", c, before_date)}
    IN  /\ last' = Call("get_customers_to_archive", <<before_date>>, rows)
        /\ UNCHANGED <<store, conn, reports>>

\* SELECT ... ORDER BY item_name; the rows are returned, here as their ids
get_products_to_archive(before_date) ==
    LET rows == {p \in Products :
                    /\ NotArchived(dim_product[p])
                    /\ ~HasActivity(fct_sales_line, "product_id", p, before_date)}
    IN  /\ last' = Call("get_products_to_archive", <<before_date>>, rows)
        /\ UNCHANGED <<store, conn, reports>>

\* The merge target is the id of a dw.dim_customer record: the callers take it
\* from the historical records they read from that table.  The other id
\* arguments also range over an id that no record has.
Next ==
    \/ \E s \in CustomerIdArgs, t \in Customers : merge_customers(s, t)
    \/ \E d \in CutoffDates : archive_customers_by_date(d)
    \/ \E d \in CutoffDates : archive_products_by_date(d)
    \/ \E ids \in SeqsUpTo(CustomerIdArgs, MaxIds) : archive_customers_by_ids(ids)
    \/ \E ids \in SeqsUpTo(ProductIdArgs, MaxIds) : archive_products_by_ids(ids)
    \/ \E c \in CustomerIdArgs : unarchive_customer(c)
    \/ \E p \in ProductIdArgs : unarchive_product(p)
    \/ \E d \in CutoffDates : get_archive_preview(d)
    \/ \E d \in CutoffDates : get_customers_to_archive(d)
    \/ \E d \in CutoffDates : get_products_to_archive(d)

Spec == Init /\ [][Next]_vars

\* ---- merges only, of a source into another id ------------------------------
\* The target ranges over every id a caller can pass: merge_customers neither
\* reads nor writes the target's record.
NextMerges ==
    \E s \in CustomerIdArgs, t \in CustomerIdArgs : s # t /\ merge_customers(s, t)

SpecMerges == Init /\ [][NextMerges]_vars

\* ---- merge_customers statement by statement, one transaction per call ----
\* What connection k reads of a fact table: the committed rows, with the rows
\* its own open transaction has re-pointed (w) showing their new customer.
View(tbl, w, tgt) ==
    [r \in DOMAIN tbl |-> IF r \in w THEN [tbl[r] EXCEPT !.customer_id = tgt] ELSE tbl[r]]

ViewInvoice(k)   == View(fct_invoice, conn[k].w_invoice, conn[k].target_id)
ViewSalesLine(k) == View(fct_sales_line, conn[k].w_sales_line, conn[k].target_id)
ViewCustomer(k)  ==
    IF conn[k].w_customer = {} THEN dim_customer
    ELSE MarkMerged(dim_customer, conn[k].source_id, conn[k].target_id)

\* rows the UPDATE of connection k matches
Matched(tbl, src) == {r \in DOMAIN tbl : tbl[r].customer_id = src}

\* rows written by the open transaction of another connection (row locks)
LockedInvoice(k)   == UNION {conn[j].w_invoice : j \in Conns \ {k}}
LockedSalesLine(k) == UNION {conn[j].w_sales_line : j \in Conns \ {k}}
LockedCustomer(k)  == UNION {conn[j].w_customer : j \in Conns \ {k}}

\* variant: the connection commits what it has when the block is left
RolledBack_Commits(committed, pending) == pending

\* leaving "with connect(...) as conn" by an exception rolls the transaction
\* back: the table keeps its committed rows, the connection's version is dropped
RolledBack(committed, pending) == committed

\* updated = 0; the call starts on an idle connection
TxBegin(k, source_id, target_id) ==
    /\ conn[k].pc = "idle"
    /\ conn' = [conn EXCEPT ![k] = [Idle EXCEPT !.pc = "invoice", !.source_id = source_id,
                                                !.target_id = target_id]]
    /\ UNCHANGED <<store, last, reports>>

\* UPDATE dw.fct_invoice SET customer_id = target WHERE customer_id = source
TxRepointInvoice(k) ==
    LET hit == Matched(ViewInvoice(k), conn[k].source_id)
    IN  /\ conn[k].pc = "invoice"
        /\ hit \cap LockedInvoice(k) = {}
        /\ conn' = [conn EXCEPT ![k].pc = "sales_line",
                                ![k].w_invoice = @ \cup hit,
                                ![k].updated = @ + RepointRowCount(ViewInvoice(k), conn[k].source_id)]
        /\ UNCHANGED <<store, last, reports>>

\* UPDATE dw.fct_sales_line SET customer_id = target WHERE customer_id = source
TxRepointSalesLine(k) ==
    LET hit == Matched(ViewSalesLine(k), conn[k].source_id)
    IN  /\ conn[k].pc = "sales_line"
        /\ hit \cap LockedSalesLine(k) = {}
        /\ conn' = [conn EXCEPT ![k].pc = "customer",
                                ![k].w_sales_line = @ \cup hit,
                                ![k].updated = @ + RepointRowCount(ViewSalesLine(k), conn[k].source_id)]
        /\ UNCHANGED <<store, last, reports>>

\* UPDATE dw.dim_customer SET merged_into = target, archived = true
\*  WHERE customer_id = source
TxMarkMerged(k) ==
    LET hit == {c \in Customers : c = conn[k].source_id}
    IN  /\ conn[k].pc = "customer"
        /\ hit \cap LockedCustomer(k) = {}
        /\ conn' = [conn EXCEPT ![k].pc = "commit", ![k].w_customer = hit]
        /\ UNCHANGED <<store, last, reports>>

\* conn.commit(); return updated
TxCommit(k) ==
    /\ conn[k].pc = "commit"
    /\ fct_invoice' = ViewInvoice(k)
    /\ fct_sales_line' = ViewSalesLine(k)
    /\ dim_customer' = ViewCustomer(k)
    /\ conn' = [conn EXCEPT ![k] = Idle]
    /\ last' = Call("merge_customers", <<conn[k].source_id, conn[k].target_id>>, conn[k].updated)
    /\ UNCHANGED <<dim_product, reports>>

\* the statement connection k is about to run raises (connection loss,
\* constraint violation): the exception leaves merge_customers before
\* conn.commit() and leaves the caller's "with get_connection()" block
TxFail(k) ==
    /\ conn[k].pc \in {"invoice", "sales_line", "customer"}
    /\ fct_invoice' = RolledBack(fct_invoice, ViewInvoice(k))
    /\ fct_sales_line' = RolledBack(fct_sales_line, ViewSalesLine(k))
    /\ dim_customer' = RolledBack(dim_customer, ViewCustomer(k))
    /\ conn' = [conn EXCEPT ![k] = Idle]
    /\ last' = Call("merge_customers_error", <<conn[k].source_id, conn[k].target_id>>,
                    conn[k].updated)
    /\ UNCHANGED <<dim_product, reports>>

NextTx ==
    \/ \E k \in Conns, s \in CustomerIdArgs, t \in Customers : TxBegin(k, s, t)
    \/ \E k \in Conns : TxRepointInvoice(k)
    \/ \E k \in Conns : TxRepointSalesLine(k)
    \/ \E k \in Conns : TxMarkMerged(k)
    \/ \E k \in Conns : TxCommit(k)
    \/ \E k \in Conns : TxFail(k)

SpecTx == Init /\ [][NextTx]_vars

\* ---- two merges of one source, started together on two connections -------
\* merge_customers(a, b) starts on connection 1 and merge_customers(a, c) on
\* connection 2 before either has run a statement.  The targets are ids a
\* caller can pass; merge_customers neither reads nor writes the target's
\* record.
RaceBegin(a, b, c) ==
    /\ last.op = "none"
    /\ \A k \in Conns : conn[k].pc = "idle"
    /\ a # b /\ a # c /\ b # c
    /\ conn' = [k \in Conns |->
                  IF k = 1 THEN [Idle EXCEPT !.pc = "invoice", !.source_id = a, !.target_id = b]
                  ELSE IF k = 2
                       THEN [Idle EXCEPT !.pc = "invoice", !.source_id = a, !.target_id = c]
                       ELSE Idle]
    /\ UNCHANGED <<store, last, reports>>

NextRace ==
    \/ \E a \in Customers, b \in CustomerIdArgs, c \in CustomerIdArgs : RaceBegin(a, b, c)
    \/ \E k \in Conns : TxRepointInvoice(k)
    \/ \E k \in Conns : TxRepointSalesLine(k)
    \/ \E k \in Conns : TxMarkMerged(k)
    \/ \E k \in Conns : TxCommit(k)

SpecRace == Init /\ [][NextRace]_vars

\* ==== customer-name matching (pure functions of app/data_management.py) =====
\* A string is a sequence of one-character strings; None is a value apart.
None == <<"None">>

LowerLetters == {"a", "b", "c", "d", "e", "f", "g", "h", "i", "j", "k", "l", "m",
                 "n", "o", "p", "q", "r", "s", "t", "u", "v", "w", "x", "y", "z"}
UpperLetters == <<"A", "B", "C", "D", "E", "F", "G", "H", "I", "J", "K", "L", "M",
                  "N", "O", "P", "Q", "R", "S", "T", "U", "V", "W", "X", "Y", "Z">>
LowerOfUpper == <<"a", "b", "c", "d", "e", "f", "g", "h", "i", "j", "k", "l", "m",
                  "n", "o", "p", "q", "r", "s", "t", "u", "v", "w", "x", "y", "z">>
Digits       == {"0", "1", "2", "3", "4", "5", "6", "7", "8", "9"}
Whitespace   == {" ", "\t"}                  \* \s
Separators   == {":", "-", "_", "/", "\\"}   \* [:\-_/\\]

\* str.lower()
lower(name) ==
    [i \in 1..Len(name) |->
        IF \E u \in 1..Len(UpperLetters) : UpperLetters[u] = name[i]
        THEN LowerOfUpper[CHOOSE u \in 1..Len(UpperLetters) : UpperLetters[u] = name[i]]
        ELSE name[i]]

\* first position from i on whose character is outside class (Len(s) + 1 if none)
RECURSIVE SkipClass(_, _, _)
SkipClass(s, i, class) ==
    IF i <= Len(s) /\ s[i] \in class THEN SkipClass(s, i + 1, class) ELSE i

StartsWith(s, word) == Len(s) >= Len(word) /\ SubSeq(s, 1, Len(word)) = word

\* re.sub(r'^<word>\s*-\s*\d+:', '', s)
RemoveNumberedPrefix(s, word) ==
    LET dash   == SkipClass(s, Len(word) + 1, Whitespace)
        digit  == SkipClass(s, dash + 1, Whitespace)
        colon  == SkipClass(s, digit, Digits)
    IN  IF /\ StartsWith(s, word)
           /\ dash <= Len(s) /\ s[dash] = "-"
           /\ colon > digit
           /\ colon <= Len(s) /\ s[colon] = ":"
        THEN SubSeq(s, colon + 1, Len(s))
        ELSE s

\* re.sub(r'^the\s+', '', s)
RemoveThePrefix(s) ==
    LET rest == SkipClass(s, 4, Whitespace)
    IN  IF StartsWith(s, <<"t", "h", "e">>) /\ rest > 4
        THEN SubSeq(s, rest, Len(s))
        ELSE s

\* re.sub(r'[:\-_/\\]+', ' ', s): every run of separators becomes one space
RECURSIVE ReplaceSeparators(_)
ReplaceSeparators(s) ==
    IF s = <<>> THEN <<>>
    ELSE IF s[1] \in Separators
         THEN <<" ">> \o ReplaceSeparators(SubSeq(s, SkipClass(s, 1, Separators), Len(s)))
         ELSE <<s[1]>> \o ReplaceSeparators(Tail(s))

\* re.sub(r'[^a-z0-9\s]', '', s)
RemoveSpecial(s) ==
    LET Keep(c) == c \in LowerLetters \cup Digits \cup Whitespace
    IN  SelectSeq(s, Keep)

\* str.split(): the maximal runs of non-whitespace characters, in order
RECURSIVE split(_)
split(s) ==
    LET start == SkipClass(s, 1, Whitespace)
        stop  == SkipClass(s, start, {c \in Range(s) : c \notin Whitespace})
    IN  IF start > Len(s) THEN <<>>
        ELSE <<SubSeq(s, start, stop - 1)>> \o split(SubSeq(s, stop, Len(s)))

\* ' '.join(words)
RECURSIVE join(_)
join(words) ==
    IF words = <<>> THEN <<>>
    ELSE IF Len(words) = 1 THEN words[1]
         ELSE words[1] \o <<" ">> \o join(Tail(words))

\* str.strip()
RECURSIVE strip(_)
strip(s) ==
    IF s # <<>> /\ s[1] \in Whitespace THEN strip(Tail(s))
    ELSE IF s # <<>> /\ s[Len(s)] \in Whitespace THEN strip(SubSeq(s, 1, Len(s) - 1))
         ELSE s

\* None stands for a missing name: `if not name` holds for it as for ''
normalize_customer_name(name) ==
    IF name = None \/ name = <<>> THEN <<>>
    ELSE LET lowered  == lower(name)
             noLocal  == RemoveNumberedPrefix(lowered, <<"l", "o", "c", "a", "l">>)
             noExport == RemoveNumberedPrefix(noLocal, <<"e", "x", "p", "o", "r", "t">>)
             noThe    == RemoveThePrefix(noExport)
             spaced   == ReplaceSeparators(noThe)
             cleaned  == RemoveSpecial(spaced)
             squeezed == join(split(cleaned))
         IN  strip(squeezed)

StopWords == {<<"t", "h", "e">>, <<"a">>, <<"a", "n">>, <<"a", "n", "d">>, <<"o", "r">>,
              <<"o", "f">>, <<"f", "o", "r">>, <<"t", "o">>, <<"i", "n">>, <<"o", "n">>,
              <<"a", "t">>}

extract_name_parts(name) ==
    LET Significant(p) == Len(p) > 1 /\ p \notin StopWords
    IN  SelectSeq(split(normalize_customer_name(name)), Significant)

\* ---- difflib.SequenceMatcher(None, a, b).ratio() ---------------------------
\* No junk, and the popularity heuristic needs len(b) >= 200.  Ranges are
\* alo..ahi and blo..bhi, both ends included.
RECURSIVE CommonRun(_, _, _, _, _, _)
CommonRun(a, b, i, j, ahi, bhi) ==
    IF i > ahi \/ j > bhi THEN 0
    ELSE IF a[i] # b[j] THEN 0
         ELSE 1 + CommonRun(a, b, i + 1, j + 1, ahi, bhi)

\* the longest common block; of the longest ones the one that starts earliest
\* in a, and of those the one that starts earliest in b
find_longest_match(a, b, alo, ahi, blo, bhi) ==
    LET starts == (alo..ahi) \X (blo..bhi)
        size   == [p \in starts |-> CommonRun(a, b, p[1], p[2], ahi, bhi)]
        best   == CHOOSE p \in starts :
                     \A q \in starts :
                        \/ size[p] > size[q]
                        \/ size[p] = size[q] /\ p[1] < q[1]
                        \/ size[p] = size[q] /\ p[1] = q[1] /\ p[2] <= q[2]
    IN  <<best[1], best[2], size[best]>>

\* sum of the sizes of get_matching_blocks(): the longest block, then the
\* same to its left and to its right
RECURSIVE MatchingSize(_, _, _, _, _, _)
MatchingSize(a, b, alo, ahi, blo, bhi) ==
    IF alo > ahi \/ blo > bhi THEN 0
    ELSE LET m == find_longest_match(a, b, alo, ahi, blo, bhi)
         IN  IF m[3] = 0 THEN 0
             ELSE m[3] + MatchingSize(a, b, alo, m[1] - 1, blo, m[2] - 1)
                       + MatchingSize(a, b, m[1] + m[3], ahi, m[2] + m[3], bhi)

\* ---- scores: exact fractions <<numerator, denominator>> in lowest terms ---
\* (the code computes in binary floating point; rounding is not modelled)
RECURSIVE GCD(_, _)
GCD(m, n) == IF n = 0 THEN m ELSE GCD(n, m % n)

Fraction(n, d)  == <<n \div GCD(n, d), d \div GCD(n, d)>>
ScoreAdd(x, y)  == Fraction(x[1] * y[2] + y[1] * x[2], x[2] * y[2])
ScoreMul(x, y)  == Fraction(x[1] * y[1], x[2] * y[2])
ScoreLeq(x, y)  == x[1] * y[2] <= y[1] * x[2]
ScoreLt(x, y)   == x[1] * y[2] <  y[1] * x[2]
ScoreMin(x, y)  == IF ScoreLeq(x, y) THEN x ELSE y

\* ratio() is 2.0 * matches / (len(a) + len(b))
ratio(a, b) == Fraction(2 * MatchingSize(a, b, 1, Len(a), 1, Len(b)), Len(a) + Len(b))

\* x in whole (substring test of str)
Contains(whole, x) ==
    \E i \in 1..(Len(whole) - Len(x) + 1) : SubSeq(whole, i, i + Len(x) - 1) = x

Min(m, n) == IF m <= n THEN m ELSE n

\* variant: without the early return for an empty normalized name
calculate_similarity_NoEmptyCheck(name1, name2) ==
    LET norm1  == normalize_customer_name(name1)
        norm2  == normalize_customer_name(name2)
        parts1 == Range(extract_name_parts(name1))
        parts2 == Range(extract_name_parts(name2))
        both   == parts1 # {} /\ parts2 # {}
        intersection == Cardinality(parts1 \cap parts2)
        union        == Cardinality(parts1 \cup parts2)
        seq_score    == ratio(norm1, norm2)
        jaccard      == IF both /\ union > 0 THEN Fraction(intersection, union) ELSE <<0, 1>>
        word_match_score ==
            IF both THEN Fraction(intersection, Min(Cardinality(parts1), Cardinality(parts2)))
                    ELSE <<0, 1>>
        substring_score ==
            IF Contains(norm2, norm1) \/ Contains(norm1, norm2) THEN <<3, 10>> ELSE <<0, 1>>
        final_score ==
            ScoreAdd(ScoreAdd(ScoreMul(seq_score, <<4, 10>>), ScoreMul(jaccard, <<3, 10>>)),
                     ScoreAdd(ScoreMul(word_match_score, <<2, 10>>),
                              ScoreMul(substring_score, <<1, 10>>)))
    IN  IF norm1 = norm2 THEN <<1, 1>>
        ELSE ScoreMin(final_score, <<1, 1>>)

\* variant: without the early return for identical normalized names
calculate_similarity_NoExactReturn(name1, name2) ==
    LET norm1  == normalize_customer_name(name1)
        norm2  == normalize_customer_name(name2)
        parts1 == Range(extract_name_parts(name1))
        parts2 == Range(extract_name_parts(name2))
        both   == parts1 # {} /\ parts2 # {}
        intersection == Cardinality(parts1 \cap parts2)
        union        == Cardinality(parts1 \cup parts2)
        seq_score    == ratio(norm1, norm2)
        jaccard      == IF both /\ union > 0 THEN Fraction(intersection, union) ELSE <<0, 1>>
        word_match_score ==
            IF both THEN Fraction(intersection, Min(Cardinality(parts1), Cardinality(parts2)))
                    ELSE <<0, 1>>
        substring_score ==
            IF Contains(norm2, norm1) \/ Contains(norm1, norm2) THEN <<3, 10>> ELSE <<0, 1>>
        final_score ==
            ScoreAdd(ScoreAdd(ScoreMul(seq_score, <<4, 10>>), ScoreMul(jaccard, <<3, 10>>)),
                     ScoreAdd(ScoreMul(word_match_score, <<2, 10>>),
                              ScoreMul(substring_score, <<1, 10>>)))
    IN  IF norm1 = <<>> \/ norm2 = <<>> THEN <<0, 1>>
        ELSE ScoreMin(final_score, <<1, 1>>)

calculate_similarity(name1, name2) ==
    LET norm1  == normalize_customer_name(name1)
        norm2  == normalize_customer_name(name2)
        parts1 == Range(extract_name_parts(name1))
        parts2 == Range(extract_name_parts(name2))
        both   == parts1 # {} /\ parts2 # {}
        intersection == Cardinality(parts1 \cap parts2)
        union        == Cardinality(parts1 \cup parts2)
        seq_score    == ratio(norm1, norm2)
        jaccard      == IF both /\ union > 0 THEN Fraction(intersection, union) ELSE <<0, 1>>
        word_match_score ==
            IF both THEN Fraction(intersection, Min(Cardinality(parts1), Cardinality(parts2)))
                    ELSE <<0, 1>>
        substring_score ==
            IF Contains(norm2, norm1) \/ Contains(norm1, norm2) THEN <<3, 10>> ELSE <<0, 1>>
        final_score ==
            ScoreAdd(ScoreAdd(ScoreMul(seq_score, <<4, 10>>), ScoreMul(jaccard, <<3, 10>>)),
                     ScoreAdd(ScoreMul(word_match_score, <<2, 10>>),
                              ScoreMul(substring_score, <<1, 10>>)))
    IN  IF norm1 = <<>> \/ norm2 = <<>> THEN <<0, 1>>
        ELSE IF norm1 = norm2 THEN <<1, 1>>
             ELSE ScoreMin(final_score, <<1, 1>>)

\* variant: the lower bound of each tier is exclusive
classify_match_Exclusive(score) ==
    IF ScoreLt(<<95, 100>>, score) THEN "exact"
    ELSE IF ScoreLt(<<7, 10>>, score) THEN "high"
         ELSE IF ScoreLt(<<5, 10>>, score) THEN "medium"
              ELSE "low"

classify_match(score) ==
    IF ScoreLeq(<<95, 100>>, score) THEN "exact"
    ELSE IF ScoreLeq(<<7, 10>>, score) THEN "high"
         ELSE IF ScoreLeq(<<5, 10>>, score) THEN "medium"
              ELSE "low"

\* `name or ''`
OrEmpty(name) == IF name = None THEN <<>> ELSE name

CustomerMatch(xero_row, hist_row, score) ==
    [xero_customer_id         |-> xero_row.customer_id,
     xero_customer_name       |-> OrEmpty(xero_row.customer_name),
     historical_customer_id   |-> hist_row.customer_id,
     historical_customer_name |-> OrEmpty(hist_row.customer_name),
     similarity_score         |-> score,
     match_type               |-> classify_match(score)]

\* variant: a historical record with the id of the Xero record is a candidate
Eligible_SameIdAllowed(xero_row, hist_row) ==
    OrEmpty(hist_row.customer_name) # <<>>

\* the negation of `if not hist_name or hist_id == xero_id: continue`
Eligible(xero_row, hist_row) ==
    /\ OrEmpty(hist_row.customer_name) # <<>>
    /\ hist_row.customer_id # xero_row.customer_id

\* variant: min_score is not looked at
Improves_NoThreshold(score, min_score, best_score) ==
    ScoreLt(best_score, score)

\* variant: a candidate that ties with the best one replaces it
Improves_OnTie(score, min_score, best_score) ==
    ScoreLeq(min_score, score) /\ ScoreLeq(best_score, score) /\ ScoreLt(<<0, 1>>, score)

\* variant: a score of 0.0 improves on the initial best_score
Improves_ZeroCounts(score, min_score, best_score) ==
    /\ ScoreLeq(min_score, score)
    /\ ScoreLt(best_score, score) \/ (score = <<0, 1>> /\ best_score = <<0, 1>>)

\* `if score >= min_score and score > best_score`
Improves(score, min_score, best_score) ==
    ScoreLeq(min_score, score) /\ ScoreLt(best_score, score)

\* the inner loop of find_customer_matches from historical row k on; best is
\* <<>> while best_match is None and <<best_match>> afterwards
RECURSIVE BestMatch(_, _, _, _, _, _)
BestMatch(xero_row, historical_customers, k, min_score, best, best_score) ==
    IF k > Len(historical_customers) THEN best
    ELSE LET hist_row == historical_customers[k]
             score    == calculate_similarity(OrEmpty(xero_row.customer_name),
                                              OrEmpty(hist_row.customer_name))
         IN  IF Eligible(xero_row, hist_row) /\ Improves(score, min_score, best_score)
             THEN BestMatch(xero_row, historical_customers, k + 1, min_score,
                            <<CustomerMatch(xero_row, hist_row, score)>>, score)
             ELSE BestMatch(xero_row, historical_customers, k + 1, min_score,
                            best, best_score)

\* the outer loop from Xero row i on: the matches appended, in row order
RECURSIVE CollectMatches(_, _, _, _)
CollectMatches(xero_customers, historical_customers, i, min_score) ==
    IF i > Len(xero_customers) THEN <<>>
    ELSE LET xero_row == xero_customers[i]
             rest     == CollectMatches(xero_customers, historical_customers, i + 1, min_score)
         IN  IF OrEmpty(xero_row.customer_name) = <<>> THEN rest
             ELSE BestMatch(xero_row, historical_customers, 1, min_score, <<>>, <<0, 1>>)
                  \o rest

\* matches.sort(key=similarity_score, reverse=True): stable, equal scores keep
\* their order
RECURSIVE SortByScore(_)
SortByScore(matches) ==
    IF matches = <<>> THEN <<>>
    ELSE LET sorted == SortByScore(SubSeq(matches, 1, Len(matches) - 1))
             m      == matches[Len(matches)]
             ahead  == {j \in 0..Len(sorted) :
                          \A i \in 1..j : ScoreLeq(m.similarity_score, sorted[i].similarity_score)}
             pos    == CHOOSE j \in ahead : \A n \in ahead : n <= j
         IN  SubSeq(sorted, 1, pos) \o <<m>> \o SubSeq(sorted, pos + 1, Len(sorted))

\* variant: the matches are returned in the order they were appended
find_customer_matches_Unsorted(xero_customers, historical_customers, min_score) ==
    CollectMatches(xero_customers, historical_customers, 1, min_score)

find_customer_matches(xero_customers, historical_customers, min_score) ==
    SortByScore(CollectMatches(xero_customers, historical_customers, 1, min_score))

\* ---- inputs of the pure functions ----------------------------------------
MaxTokens    == 4   \* a raw name is made of at most MaxTokens tokens
MaxSimTokens == 3   \* the same for the names compared pairwise
MaxRows      == 2   \* rows of a data frame passed to find_customer_matches

RECURSIVE Flatten(_)
Flatten(ws) == IF ws = <<>> THEN <<>> ELSE ws[1] \o Flatten(Tail(ws))

NamesOver(tokens, n) == {Flatten(ws) : ws \in SeqsUpTo(tokens, n)}

\* "the", "THE", "local", "export", " ", "-", "1:", "ab", "&"
RawTokens == {<<"t", "h", "e">>, <<"T", "H", "E">>, <<"l", "o", "c", "a", "l">>,
              <<"e", "x", "p", "o", "r", "t">>, <<" ">>, <<"-">>, <<"1", ":">>,
              <<"a", "b">>, <<"&">>}
RawNames  == NamesOver(RawTokens, MaxTokens) \cup {None}

\* "ab", "ba", "b", "of", " ", "-"
SimTokens == {<<"a", "b">>, <<"b", "a">>, <<"b">>, <<"o", "f">>, <<" ">>, <<"-">>}
SimNames  == NamesOver(SimTokens, MaxSimTokens)

NoTables ==
    /\ dim_customer = <<>> /\ dim_product = <<>>
    /\ fct_invoice = <<>> /\ fct_sales_line = <<>>
    /\ conn = [k \in Conns |-> Idle]
    /\ NoReports

Input(args) == [op |-> "input", args |-> args, ret |-> 0, after |-> "none"]

\* normalize_customer_name, applied to a name and then to its own result
InitNormalize == NoTables /\ \E name \in RawNames : last = Input(<<name>>)

Normalize ==
    /\ last.op = "input"
    /\ last' = Call("normalize_customer_name", last.args,
                    normalize_customer_name(last.args[1]))
    /\ UNCHANGED <<store, conn, reports>>

NormalizeAgain ==
    /\ last.op = "normalize_customer_name" /\ last.after = "input"
    /\ last' = Call("normalize_customer_name", <<last.ret>>,
                    normalize_customer_name(last.ret))
    /\ UNCHANGED <<store, conn, reports>>

NextNormalize == Normalize \/ NormalizeAgain

SpecNormalize == InitNormalize /\ [][NextNormalize]_vars

\* calculate_similarity on a pair of names
InitSimilarity == NoTables /\ \E a \in SimNames, b \in SimNames : last = Input(<<a, b>>)

Similarity ==
    /\ last.op = "input"
    /\ last' = Call("calculate_similarity", last.args,
                    calculate_similarity(last.args[1], last.args[2]))
    /\ UNCHANGED <<store, conn, reports>>

SpecSimilarity == InitSimilarity /\ [][Similarity]_vars

\* classify_match on two scores k / ScoreSteps
ScoreSteps == 100
Scores     == {Fraction(k, ScoreSteps) : k \in 0..ScoreSteps}

InitClassify == NoTables /\ \E s1 \in Scores, s2 \in Scores : last = Input(<<s1, s2>>)

Classify ==
    /\ last.op = "input"
    /\ last' = Call("classify_match", last.args,
                    <<classify_match(last.args[1]), classify_match(last.args[2])>>)
    /\ UNCHANGED <<store, conn, reports>>

SpecClassify == InitClassify /\ [][Classify]_vars

\* find_customer_matches on two data frames of at most MaxRows rows; within a
\* frame the customer_id values differ (primary key of dw.dim_customer), the
\* two frames can hold the same id
NumXeroIds == 2
NumHistIds == 3

\* None, "", "-", "ab", "ba", "ab ba", "ab b"
MatchNames == {None, <<>>, <<"-">>, <<"a", "b">>, <<"b", "a">>,
               <<"a", "b", " ", "b", "a">>, <<"a", "b", " ", "b">>}
MinScores  == {<<0, 1>>, <<1, 2>>, <<7, 10>>}

Frames(ids) ==
    {f \in SeqsUpTo([customer_id : ids, customer_name : MatchNames], MaxRows) :
        \A i, j \in 1..Len(f) : i # j => f[i].customer_id # f[j].customer_id}

InitMatch ==
    /\ NoTables
    /\ \E xero_customers \in Frames(1..NumXeroIds),
          historical_customers \in Frames(1..NumHistIds),
          min_score \in MinScores :
            last = Input(<<xero_customers, historical_customers, min_score>>)

Match ==
    /\ last.op = "input"
    /\ last' = Call("find_customer_matches", last.args,
                    find_customer_matches(last.args[1], last.args[2], last.args[3]))
    /\ UNCHANGED <<store, conn, reports>>

SpecMatch == InitMatch /\ [][Match]_vars

\* ==== scripts/generate_monthly_statements.py ================================
\* A date of the current month is its day number; first_weekday is the
\* weekday (Monday = 0) of day 1.
weekday(first_weekday, day) == (first_weekday + day - 1) % 7

\* the while loop from `current` on: the value is_second_working_day returns
RECURSIVE CountWorkingDays(_, _, _, _)
CountWorkingDays(first_weekday, today, current, working_days) ==
    IF current > today
    THEN working_days = 2 /\ weekday(first_weekday, today) < 5
    ELSE IF weekday(first_weekday, current) < 5
         THEN IF working_days + 1 > 2 THEN FALSE
              ELSE CountWorkingDays(first_weekday, today, current + 1, working_days + 1)
         ELSE CountWorkingDays(first_weekday, today, current + 1, working_days)

\* variant: without the final test that today is a weekday
is_second_working_day_NoWeekdayTest(first_weekday, today) ==
    Cardinality({d \in 1..today : weekday(first_weekday, d) < 5}) = 2

\* today = pendulum.now("UTC") is at or after the midnight that starts its
\* date, so the loop runs over the dates 1..today
is_second_working_day(first_weekday, today) ==
    CountWorkingDays(first_weekday, today, 1, 0)

MonthLengths == 28..31

InitCalendar ==
    /\ NoTables
    /\ \E first_weekday \in 0..6, days \in MonthLengths :
          \E today \in 1..days : last = Input(<<first_weekday, days, today>>)

SecondWorkingDay ==
    /\ last.op = "input"
    /\ last' = Call("is_second_working_day", last.args,
                    is_second_working_day(last.args[1], last.args[3]))
    /\ UNCHANGED <<store, conn, reports>>

SpecCalendar == InitCalendar /\ [][SecondWorkingDay]_vars

\* ---- process_queue of src/reporting/sales_report.py ----------------------
\* Two connections run process_queue: the worker loop of reporting/worker.py
\* and the background task of POST /api/process-report-queue.  Each statement
\* and each commit is a step.  A row of dw.report_queue has its committed
\* status, the connection holding its row lock and the status that connection
\* wrote and has not committed.
NumItems == 2   \* rows of dw.report_queue, id 1..NumItems
Items    == 1..NumItems
NoLock   == 0

QueueRow(status) == [status |-> status, lock |-> NoLock, written |-> "none"]
NotStarted       == [pc |-> "idle", items |-> <<>>, pos |-> 0]

lifecycle == <<store, last, conn>>

\* the orders in which a SELECT without ORDER BY can return the rows S
Orderings(S) ==
    {q \in SeqsUpTo(S, Cardinality(S)) : Len(q) = Cardinality(S) /\ Range(q) = S}

\* WHERE status = 'pending' FOR UPDATE SKIP LOCKED, run on connection k
Selectable(k) ==
    {i \in Items : /\ report_queue[i].status = "pending"
                   /\ report_queue[i].lock \in {NoLock, k}}

\* conn.commit() on connection k: its writes become the committed status and
\* every row lock it holds is released
Commit(rq, k) ==
    [i \in Items |->
        IF rq[i].lock = k
        THEN QueueRow(IF rq[i].written = "none" THEN rq[i].status ELSE rq[i].written)
        ELSE rq[i]]

\* UPDATE dw.report_queue SET status = <status> WHERE id = <i>, on connection
\* k; the statement waits while another connection holds the row lock
SetStatus(k, i, status) ==
    /\ report_queue[i].lock \in {NoLock, k}
    /\ report_queue' = [report_queue EXCEPT ![i].lock = k, ![i].written = status]

Item(k) == run[k].items[run[k].pos]

InitQueue ==
    /\ dim_customer = <<>> /\ dim_product = <<>>
    /\ fct_invoice = <<>> /\ fct_sales_line = <<>>
    /\ conn = [k \in Conns |-> Idle]
    /\ last = [op |-> "none", args |-> <<>>, ret |-> 0, after |-> "none"]
    /\ \E status \in [Items -> {"pending", "completed"}] :
          report_queue = [i \in Items |-> QueueRow(status[i])]
    /\ outbox = <<>>
    /\ run = [k \in Conns |-> NotStarted]

\* the SELECT ... FOR UPDATE SKIP LOCKED and fetchall(); `if not items: return`
SelectPending(k) ==
    /\ run[k].pc = "idle"
    /\ \E items \in Orderings(Selectable(k)) :
          /\ report_queue' = [i \in Items |->
                                 IF i \in Range(items)
                                 THEN [report_queue[i] EXCEPT !.lock = k]
                                 ELSE report_queue[i]]
          /\ run' = [run EXCEPT ![k] =
                        IF items = <<>> THEN [pc |-> "done", items |-> <<>>, pos |-> 0]
                        ELSE [pc |-> "update", items |-> items, pos |-> 1]]
    /\ UNCHANGED <<lifecycle, outbox>>

\* UPDATE ... SET status = 'processing', processed_at = now() WHERE id = item_id
MarkProcessing(k) ==
    /\ run[k].pc = "update"
    /\ SetStatus(k, Item(k), "processing")
    /\ run' = [run EXCEPT ![k].pc = "commit_processing"]
    /\ UNCHANGED <<lifecycle, outbox>>

\* the conn.commit() after it
CommitProcessing(k) ==
    /\ run[k].pc = "commit_processing"
    /\ report_queue' = Commit(report_queue, k)
    /\ run' = [run EXCEPT ![k].pc = "report"]
    /\ UNCHANGED <<lifecycle, outbox>>

\* the report is fetched and generated and send_email is called; send_email
\* logs an error of SendGrid and returns
SendReport(k) ==
    /\ run[k].pc = "report"
    /\ \E delivered \in BOOLEAN :
          outbox' = IF delivered THEN Append(outbox, [id |-> Item(k), conn |-> k])
                    ELSE outbox
    /\ run' = [run EXCEPT ![k].pc = "complete"]
    /\ UNCHANGED <<lifecycle, report_queue>>

\* fetching or generating the report raises: the handler of the item runs
\* UPDATE ... SET status = 'failed', error_message = ... WHERE id = item_id
ReportFails(k) ==
    /\ run[k].pc = "report"
    /\ SetStatus(k, Item(k), "failed")
    /\ run' = [run EXCEPT ![k].pc = "commit"]
    /\ UNCHANGED <<lifecycle, outbox>>

\* UPDATE ... SET status = 'completed' WHERE id = item_id
MarkCompleted(k) ==
    /\ run[k].pc = "complete"
    /\ SetStatus(k, Item(k), "completed")
    /\ run' = [run EXCEPT ![k].pc = "commit"]
    /\ UNCHANGED <<lifecycle, outbox>>

\* the conn.commit() that ends the item, then the next item of the list
CommitItem(k) ==
    /\ run[k].pc = "commit"
    /\ report_queue' = Commit(report_queue, k)
    /\ run' = [run EXCEPT ![k] =
                  IF run[k].pos = Len(run[k].items)
                  THEN [pc |-> "done", items |-> <<>>, pos |-> 0]
                  ELSE [run[k] EXCEPT !.pc = "update", !.pos = @ + 1]]
    /\ UNCHANGED <<lifecycle, outbox>>

\* process_queue has returned; conn.close(), and the connection is free for
\* the next iteration of the worker loop or the next API request
Close(k) ==
    /\ run[k].pc = "done"
    /\ run' = [run EXCEPT ![k] = NotStarted]
    /\ UNCHANGED <<lifecycle, report_queue, outbox>>

NextQueue ==
    \E k \in Conns :
        \/ SelectPending(k)
        \/ MarkProcessing(k)
        \/ CommitProcessing(k)
        \/ SendReport(k)
        \/ ReportFails(k)
        \/ MarkCompleted(k)
        \/ CommitItem(k)
        \/ Close(k)

SpecQueue == InitQueue /\ [][NextQueue]_vars

\* ---- vocabulary of the properties ----------------------------------------
Refs(tbl, c) == {r \in DOMAIN tbl : tbl[r].customer_id = c}
NoRefs(c)    == Refs(fct_invoice, c) = {} /\ Refs(fct_sales_line, c) = {}
IsMerge(l)   == l.op = "merge_customers"
Src(l)       == l.args[1]
Tgt(l)       == l.args[2]

\* C1: immediately after merge_customers(A, B) with A # B and A a record of
\* dim_customer, A has archived = true and merged_into = B, and no fct_invoice
\* row and no fct_sales_line row has customer_id = A.
C1_MergeInvariant ==
    (IsMerge(last) /\ Src(last) # Tgt(last) /\ Src(last) \in Customers) =>
        /\ dim_customer[Src(last)].archived = "true"
        /\ dim_customer[Src(last)].merged_into = Tgt(last)
        /\ NoRefs(Src(last))

C1_Witness ==
    /\ IsMerge(last) /\ Src(last) # Tgt(last) /\ Src(last) \in Customers
    /\ last.ret = NumInvoices + NumSalesLines
    /\ dim_customer[Src(last)].merged_into = Tgt(last)

\* C2: for A # B, merge_customers(A, B) returns a count > 0 when a
\* transactional row references A, and a merge_customers(A, B) that directly
\* follows a merge_customers(A, B) returns 0 and leaves the store as it was.
C2_MergeIdempotent ==
    [][(IsMerge(last') /\ Src(last') # Tgt(last')) =>
          /\ ~NoRefs(Src(last')) => last'.ret > 0
          /\ (IsMerge(last) /\ last.args = last'.args) =>
                (last'.ret = 0 /\ store' = store)]_vars

C2_Witness ==
    /\ IsMerge(last) /\ last.after = "merge_customers" /\ last.ret = 0
    /\ Src(last) # Tgt(last) /\ Src(last) \in Customers
    /\ dim_customer[Src(last)].merged_into = Tgt(last)
    /\ Cardinality(Refs(fct_invoice, Tgt(last))) + Cardinality(Refs(fct_sales_line, Tgt(last)))
         = NumInvoices + NumSalesLines

\* C3: merge_customers(source, target) returns the number of fct_invoice rows
\* plus the number of fct_sales_line rows that referenced source before the
\* call; afterwards each of those rows references target and every other row
\* keeps its customer reference.
C3_MergeCount ==
    [][IsMerge(last') =>
          /\ last'.ret = Cardinality(Refs(fct_invoice, Src(last')))
                           + Cardinality(Refs(fct_sales_line, Src(last')))
          /\ \A r \in 1..NumInvoices :
                fct_invoice'[r].customer_id =
                    IF r \in Refs(fct_invoice, Src(last')) THEN Tgt(last')
                    ELSE fct_invoice[r].customer_id
          /\ \A r \in 1..NumSalesLines :
                fct_sales_line'[r].customer_id =
                    IF r \in Refs(fct_sales_line, Src(last')) THEN Tgt(last')
                    ELSE fct_sales_line[r].customer_id]_vars

C3_Witness ==
    /\ IsMerge(last) /\ Src(last) # Tgt(last) /\ last.ret = 2
    /\ Refs(fct_invoice, Tgt(last)) # {}
    /\ Cardinality(Refs(fct_sales_line, Tgt(last))) = 2


\* steps of connection k: its statement raises / its transaction commits
Failing(k)    == conn[k].pc \in {"invoice", "sales_line", "customer"} /\ conn'[k].pc = "idle"
Committing(k) == conn[k].pc = "commit" /\ conn'[k].pc = "idle"

\* C4: if a statement of a merge_customers call fails, nothing of the call is
\* committed: the failing step leaves every table as committed, drops what the
\* connection had written and reports the error; the committed tables change
\* only when a connection that ran all three statements commits, and then by
\* that connection's whole merge.
C4_MergeAtomic ==
    [][/\ \A k \in Conns : Failing(k) =>
              /\ store' = store
              /\ conn'[k] = Idle
              /\ last'.op = "merge_customers_error"
              /\ last'.args = <<conn[k].source_id, conn[k].target_id>>
       /\ store' # store => \E k \in Conns :
              /\ Committing(k)
              /\ \A r \in conn[k].w_invoice : fct_invoice'[r].customer_id = conn[k].target_id
              /\ \A r \in conn[k].w_sales_line : fct_sales_line'[r].customer_id = conn[k].target_id
              /\ conn[k].source_id \in Customers =>
                    /\ dim_customer'[conn[k].source_id].merged_into = conn[k].target_id
                    /\ dim_customer'[conn[k].source_id].archived = "true"]_vars

C4_Witness ==
    /\ last.op = "merge_customers_error" /\ last.ret = NumInvoices + NumSalesLines
    /\ Src(last) # Tgt(last)
    /\ Cardinality(Refs(fct_invoice, Src(last))) = NumInvoices
    /\ Cardinality(Refs(fct_sales_line, Src(last))) = NumSalesLines
    /\ dim_customer[Src(last)].merged_into = NULL
    /\ \A k \in Conns : conn[k] = Idle

\* C5: in every state reachable by merge, archive-by-ids, archive-by-cutoff
\* and unarchive operations, every customer record whose merged_into is set
\* has archived = true.
C5_MergedImpliesArchived ==
    \A c \in Customers : dim_customer[c].merged_into # NULL => dim_customer[c].archived = "true"

\* x occurs in the list ids
InList(x, ids) == \E i \in 1..Len(ids) : ids[i] = x

\* C6: archive_customers_by_ids(ids) and archive_products_by_ids(ids) set
\* archived = true on exactly the existing records whose id is in ids, change
\* nothing else, and return the number of those records, already archived ones
\* included; for the empty list they return 0 and leave the store as it is.
C6_ArchiveByIds ==
    [][/\ last'.op = "archive_customers_by_ids" =>
            /\ \A c \in Customers :
                  dim_customer'[c] = IF InList(c, last'.args[1])
                                     THEN [dim_customer[c] EXCEPT !.archived = "true"]
                                     ELSE dim_customer[c]
            /\ last'.ret = Cardinality({c \in Customers : InList(c, last'.args[1])})
            /\ UNCHANGED <<dim_product, fct_invoice, fct_sales_line>>
            /\ last'.args[1] = <<>> => (last'.ret = 0 /\ store' = store)
       /\ last'.op = "archive_products_by_ids" =>
            /\ \A p \in Products :
                  dim_product'[p] = IF InList(p, last'.args[1]) THEN "true" ELSE dim_product[p]
            /\ last'.ret = Cardinality({p \in Products : InList(p, last'.args[1])})
            /\ UNCHANGED <<dim_customer, fct_invoice, fct_sales_line>>
            /\ last'.args[1] = <<>> => (last'.ret = 0 /\ store' = store)]_vars

C6_Witness ==
    /\ last.op = "archive_customers_by_ids" /\ last.after = "archive_customers_by_ids"
    /\ Len(last.args[1]) = 2 /\ last.args[1][1] # last.args[1][2]
    /\ last.ret = 1
    /\ \E c \in Customers : dim_customer[c].archived # "true"

\* C7: for an existing customer id (product id), unarchive_customer(id)
\* (unarchive_product(id)) called directly after archive_customers_by_ids([id])
\* (archive_products_by_ids([id])) returns true and leaves the record with
\* archived = false, whatever it was before, and the record is selected again
\* by the queries that filter on archived = false.
C7_ArchiveRestoreRoundTrip ==
    [][/\ ( /\ last.op = "archive_customers_by_ids" /\ last'.op = "unarchive_customer"
            /\ last.args[1] = <<last'.args[1]>> /\ last'.args[1] \in Customers ) =>
              /\ last'.ret = TRUE
              /\ dim_customer'[last'.args[1]].archived = "false"
              /\ last'.args[1] \in ActiveCustomers(dim_customer')
       /\ ( /\ last.op = "archive_products_by_ids" /\ last'.op = "unarchive_product"
            /\ last.args[1] = <<last'.args[1]>> /\ last'.args[1] \in Products ) =>
              /\ last'.ret = TRUE
              /\ dim_product'[last'.args[1]] = "false"
              /\ last'.args[1] \in ActiveProducts(dim_product')]_vars

C7_Witness ==
    /\ last.op = "unarchive_customer" /\ last.after = "archive_customers_by_ids"
    /\ last.ret = TRUE
    /\ dim_customer[last.args[1]].archived = "false"
    /\ dim_customer[last.args[1]].merged_into # NULL

\* C8 as stated: unarchive_customer(id) and unarchive_product(id) return true
\* if and only if the call changed a row.
C8_TrueIffRowChanged ==
    [][/\ last'.op = "unarchive_customer" => (last'.ret = TRUE <=> dim_customer' # dim_customer)
       /\ last'.op = "unarchive_product" => (last'.ret = TRUE <=> dim_product' # dim_product)]_vars

\* C8, amended: unarchive_customer(id) and unarchive_product(id) return true
\* if and only if a record with the given id exists, whether or not it was
\* archived; a call that returns false leaves the store unchanged.
C8_TrueIffRecordExists ==
    [][/\ last'.op = "unarchive_customer" =>
            /\ last'.ret = TRUE <=> last'.args[1] \in Customers
            /\ last'.ret = FALSE => store' = store
       /\ last'.op = "unarchive_product" =>
            /\ last'.ret = TRUE <=> last'.args[1] \in Products
            /\ last'.ret = FALSE => store' = store]_vars

C8_Witness ==
    /\ last.op = "unarchive_product" /\ last.after = "unarchive_product"
    /\ last.ret = TRUE
    /\ dim_product[last.args[1]] = "false"

\* C9: unarchive_customer(id) changes only the archived flag of the record
\* with that id: merged_into of every record, every other record, every
\* fct_invoice row and every fct_sales_line row stay as they were.
C9_UnarchiveFrame ==
    [][last'.op = "unarchive_customer" =>
          /\ \A c \in Customers :
                dim_customer'[c] = IF c = last'.args[1]
                                   THEN [dim_customer[c] EXCEPT !.archived = "false"]
                                   ELSE dim_customer[c]
          /\ UNCHANGED <<dim_product, fct_invoice, fct_sales_line>>]_vars

C9_Witness ==
    /\ last.op = "unarchive_customer" /\ last.after = "merge_customers"
    /\ last.args[1] \in Customers
    /\ dim_customer[last.args[1]].archived = "false"
    /\ dim_customer[last.args[1]].merged_into \in Customers \ {last.args[1]}
    /\ NoRefs(last.args[1])
    /\ ~NoRefs(dim_customer[last.args[1]].merged_into)

\* every row of tbl that carries id in column col is dated before d
Inactive(tbl, col, id, d) == \A r \in DOMAIN tbl : tbl[r][col] = id => tbl[r].invoice_date < d

C11_PreviewAgrees ==
    [][LET d == last'.args[1]
           dueCustomers == {c \in Customers :
                              /\ dim_customer[c].archived \in {"false", "null"}
                              /\ Inactive(fct_invoice, "customer_id", c, d)
                              /\ Inactive(fct_sales_line, "customer_id", c, d)}
           dueProducts  == {p \in Products :
                              /\ dim_product[p] \in {"false", "null"}
                              /\ Inactive(fct_sales_line, "product_id", p, d)}
       IN  /\ last'.op = "get_archive_preview" =>
                /\ UNCHANGED <<store, conn>>
                /\ last'.ret = <<Cardinality(dueCustomers), Cardinality(dueProducts)>>
           /\ last'.op = "get_customers_to_archive" =>
                /\ UNCHANGED <<store, conn>>
                /\ last'.ret = dueCustomers
           /\ last'.op = "get_products_to_archive" =>
                /\ UNCHANGED <<store, conn>>
                /\ last'.ret = dueProducts
           \* a call that directly follows the preview runs on the same store
           /\ last.op = "get_archive_preview" =>
                /\ last'.op = "get_customers_to_archive" /\ last'.args = last.args =>
                        Cardinality(last'.ret) = last.ret[1]
                /\ last'.op = "get_products_to_archive" /\ last'.args = last.args =>
                        Cardinality(last'.ret) = last.ret[2]
                /\ last'.op = "archive_customers_by_date" /\ last'.args = last.args =>
                        last'.ret = last.ret[1]
                /\ last'.op = "archive_products_by_date" /\ last'.args = last.args =>
                        last'.ret = last.ret[2]]_vars

C11_Witness ==
    /\ last.op = "archive_customers_by_date" /\ last.after = "get_archive_preview"
    /\ last.ret = 1
    /\ \E c \in Customers : dim_customer[c].archived = "true"
    /\ \E c \in Customers :
          /\ dim_customer[c].archived # "true"
          /\ HasActivity(fct_sales_line, "customer_id", c, last.args[1])
          /\ ~HasActivity(fct_invoice, "customer_id", c, last.args[1])

\* ---- vocabulary of the matching properties -------------------------------
IsMatchCall == last.op = "find_customer_matches"
XeroRows    == last.args[1]
HistRows    == last.args[2]
MinScore    == last.args[3]
HasName(row) == row.customer_name # None /\ row.customer_name # <<>>

\* C12: every match returned by find_customer_matches has a
\* similarity_score of at least min_score, and no Xero record is the source
\* of more than one returned match.
C12_MatchThreshold ==
    IsMatchCall =>
        /\ \A i \in 1..Len(last.ret) :
              MinScore[1] * last.ret[i].similarity_score[2]
                 <= last.ret[i].similarity_score[1] * MinScore[2]
        /\ \A i, j \in 1..Len(last.ret) :
              i # j => last.ret[i].xero_customer_id # last.ret[j].xero_customer_id

C12_Witness ==
    /\ IsMatchCall /\ Len(last.ret) = 2
    /\ MinScore = <<7, 10>>
    /\ \E k \in 1..Len(HistRows), x \in 1..Len(XeroRows) :
          /\ HistRows[k].customer_id # XeroRows[x].customer_id
          /\ ScoreLt(<<0, 1>>, calculate_similarity(XeroRows[x].customer_name,
                                                    HistRows[k].customer_name))
          /\ ScoreLt(calculate_similarity(XeroRows[x].customer_name,
                                          HistRows[k].customer_name), MinScore)

\* the historical rows a Xero row can be matched with: a non-empty name and
\* another id
Candidates(id) ==
    {k \in 1..Len(HistRows) : HasName(HistRows[k]) /\ HistRows[k].customer_id # id}

\* C13: the target of a returned match is a historical record with a
\* non-empty name and an id different from the Xero record's id, and the
\* match's similarity_score is the maximum of calculate_similarity over all
\* such historical records; a Xero record with an empty or missing name
\* yields no match, and empty frames yield an empty result.
C13_BestCandidate ==
    IsMatchCall =>
        /\ \A i \in 1..Len(last.ret) :
              LET m == last.ret[i]
              IN  /\ \E k \in Candidates(m.xero_customer_id) :
                        /\ HistRows[k].customer_id = m.historical_customer_id
                        /\ HistRows[k].customer_name = m.historical_customer_name
                        /\ calculate_similarity(m.xero_customer_name, HistRows[k].customer_name)
                              = m.similarity_score
                  /\ \A k \in Candidates(m.xero_customer_id) :
                        ScoreLeq(calculate_similarity(m.xero_customer_name,
                                                      HistRows[k].customer_name),
                                 m.similarity_score)
                  /\ \E x \in 1..Len(XeroRows) :
                        /\ XeroRows[x].customer_id = m.xero_customer_id
                        /\ XeroRows[x].customer_name = m.xero_customer_name
        /\ \A x \in 1..Len(XeroRows) :
              ~HasName(XeroRows[x]) =>
                 \A i \in 1..Len(last.ret) :
                    last.ret[i].xero_customer_id # XeroRows[x].customer_id
        /\ (XeroRows = <<>> \/ HistRows = <<>>) => last.ret = <<>>

C13_Witness ==
    /\ IsMatchCall /\ Len(last.ret) = 1 /\ Len(XeroRows) = 2 /\ Len(HistRows) = 2
    /\ XeroRows[1].customer_name = None
    /\ Candidates(XeroRows[2].customer_id) = {1, 2}
    /\ last.ret[1].historical_customer_id = HistRows[2].customer_id
    /\ ScoreLeq(MinScore, calculate_similarity(XeroRows[2].customer_name,
                                               HistRows[1].customer_name))

\* C14: normalize_customer_name is idempotent: applied to its own result it
\* returns that result unchanged, also when a prefix such as "the " comes to
\* the front only through the first normalization.
C14_NormalizeIdempotent ==
    [][last.op = "normalize_customer_name" /\ last'.op = "normalize_customer_name"
          => last'.ret = last.ret]_vars

\* C15: calculate_similarity is symmetric: calculate_similarity(a, b) equals
\* calculate_similarity(b, a) for all names a and b.
C15_SimilaritySymmetric ==
    last.op = "calculate_similarity" =>
        last.ret = calculate_similarity(last.args[2], last.args[1])

\* C16: calculate_similarity(a, b) lies between 0.0 and 1.0; it is 1.0 when
\* both arguments are the same name and that name normalizes to a non-empty
\* string; it is 0.0 whenever one of the names normalizes to the empty string.
C16_SimilarityBounds ==
    last.op = "calculate_similarity" =>
        LET a == last.args[1]
            b == last.args[2]
            num == last.ret[1]
            den == last.ret[2]
        IN  /\ den > 0 /\ 0 <= num /\ num <= den
            /\ (a = b /\ normalize_customer_name(a) # <<>>) => num = den
            /\ (normalize_customer_name(a) = <<>> \/ normalize_customer_name(b) = <<>>)
                  => num = 0

C16_Witness ==
    /\ last.op = "calculate_similarity"
    /\ last.ret = <<0, 1>>
    /\ last.args[1] # <<>> /\ normalize_customer_name(last.args[1]) = <<>>
    /\ normalize_customer_name(last.args[2]) # <<>>

\* rank of a tier: low < medium < high < exact
TierRank(tier) ==
    CASE tier = "low" -> 0 [] tier = "medium" -> 1 [] tier = "high" -> 2 [] tier = "exact" -> 3

\* the tier the claim gives to the score n / d
TierOf(n, d) ==
    IF 100 * n >= 95 * d THEN "exact"
    ELSE IF 100 * n >= 70 * d THEN "high"
         ELSE IF 100 * n >= 50 * d THEN "medium"
              ELSE "low"

\* C17: classify_match is total and monotone with inclusive lower bounds:
\* 'exact' from 0.95, 'high' from 0.70, 'medium' from 0.50, 'low' below, so
\* for s1 <= s2 the tier of s1 never ranks above the tier of s2.
C17_ClassifyMonotone ==
    last.op = "classify_match" =>
        LET s1 == last.args[1]
            s2 == last.args[2]
        IN  /\ last.ret[1] = TierOf(s1[1], s1[2])
            /\ last.ret[2] = TierOf(s2[1], s2[2])
            /\ s1[1] * s2[2] <= s2[1] * s1[2] => TierRank(last.ret[1]) <= TierRank(last.ret[2])

C17_Witness ==
    /\ last.op = "classify_match"
    /\ last.args = <<<<7, 10>>, <<19, 20>>>>
    /\ last.ret = <<"high", "exact">>

\* day d of a month whose day 1 has weekday first (Monday = 0) is one of
\* Monday..Friday
MonToFri(first, d) == \E k \in 0..4 : (first + d - 1 - k) % 7 = 0

\* C20: is_second_working_day returns True exactly when today is a
\* Monday-to-Friday day and exactly two Monday-to-Friday days lie between the
\* first of the month and today, both included; so in every month, whatever
\* weekday it starts on, it is True on exactly one date and False on the
\* first working day, on weekends and on every later date.
C20_SecondWorkingDay ==
    last.op = "is_second_working_day" =>
        LET first == last.args[1]
            days  == last.args[2]
            today == last.args[3]
            second == {t \in 1..days : is_second_working_day(first, t)}
        IN  /\ last.ret = (/\ MonToFri(first, today)
                           /\ Cardinality({d \in 1..today : MonToFri(first, d)}) = 2)
            /\ Cardinality(second) = 1
            /\ \A t \in second :
                  /\ MonToFri(first, t)
                  /\ \E d \in 1..(t - 1) :
                        /\ MonToFri(first, d)
                        /\ ~is_second_working_day(first, d)
                        /\ \A e \in 1..(t - 1) : MonToFri(first, e) => e = d
                  /\ \A later \in (t + 1)..days : ~is_second_working_day(first, later)

C20_Witness ==
    /\ last.op = "is_second_working_day"
    /\ last.args[1] = 5 /\ last.args[3] = 4
    /\ last.ret = TRUE

\* the ACTIVE state of a customer record
ActiveRecord == [archived |-> "false", merged_into |-> NULL]

\* what one call can make of a dw.dim_customer record: the source of a merge
\* into any record, archived, restored, or left alone
RecordAfterOneCall(r) ==
    {MarkMerged(<<r>>, 1, t)[1] : t \in Customers}
       \cup {[r EXCEPT !.archived = "true"], [r EXCEPT !.archived = "false"], r}

\* the record states that sequences of calls lead to from the ones in seen
RECURSIVE RecordClosure(_)
RecordClosure(seen) ==
    LET more == seen \cup UNION {RecordAfterOneCall(r) : r \in seen}
    IN  IF more = seen THEN seen ELSE RecordClosure(more)

BothCommitted ==
    /\ last.op = "merge_customers" /\ last.after = "merge_customers"
    /\ \A k \in Conns : conn[k].pc = "idle"

\* C19: merge_customers(A, B) and merge_customers(A, C), A, B, C distinct,
\* run concurrently on two connections, each as one transaction: every
\* interleaving runs to the end (a connection that waits for a row lock is
\* released by the other's commit), and at the end A is archived,
\* A.merged_into is the target of the merge that committed last, and no
\* fct_invoice or fct_sales_line row references A.
C19_LastCommittedWins ==
    /\ (\E k \in Conns : conn[k].pc # "idle") => ENABLED NextRace
    /\ BothCommitted =>
          /\ dim_customer[Src(last)].archived = "true"
          /\ dim_customer[Src(last)].merged_into = Tgt(last)
          /\ NoRefs(Src(last))

C19_Witness ==
    /\ BothCommitted
    /\ last.ret = 0
    /\ dim_customer[Src(last)].merged_into = Tgt(last)
    /\ Tgt(last) \in Customers
    /\ \E r \in 1..NumSalesLines : fct_sales_line[r].customer_id = NumCustomers + 1
    /\ Refs(fct_invoice, Tgt(last)) = {}

\* C21: the list returned by find_customer_matches is ordered by
\* non-increasing similarity_score: for positions i < j the score at i is at
\* least the score at j.
C21_SortedByScore ==
    IsMatchCall =>
        \A i, j \in 1..Len(last.ret) :
            i < j => last.ret[j].similarity_score[1] * last.ret[i].similarity_score[2]
                        <= last.ret[i].similarity_score[1] * last.ret[j].similarity_score[2]

C21_Witness ==
    /\ IsMatchCall /\ Len(last.ret) = 2 /\ Len(XeroRows) = 2
    /\ last.ret[1].xero_customer_id = XeroRows[2].customer_id
    /\ last.ret[2].xero_customer_id = XeroRows[1].customer_id
    /\ ScoreLt(last.ret[2].similarity_score, last.ret[1].similarity_score)

\* C22: when several eligible historical records tie for the highest
\* similarity to a Xero record, the match points at the one that comes first
\* in the historical frame: a later candidate replaces the best one only if
\* its score is strictly greater.
C22_FirstOfTies ==
    IsMatchCall =>
        \A i \in 1..Len(last.ret) :
            LET m    == last.ret[i]
                tied == {k \in Candidates(m.xero_customer_id) :
                            calculate_similarity(m.xero_customer_name, HistRows[k].customer_name)
                               = m.similarity_score}
            IN  \E k \in tied :
                   /\ HistRows[k].customer_id = m.historical_customer_id
                   /\ \A n \in tied : k <= n

C22_Witness ==
    /\ IsMatchCall /\ Len(last.ret) = 1 /\ Len(HistRows) = 2
    /\ Candidates(last.ret[1].xero_customer_id) = {1, 2}
    /\ calculate_similarity(last.ret[1].xero_customer_name, HistRows[1].customer_name)
          = calculate_similarity(last.ret[1].xero_customer_name, HistRows[2].customer_name)
    /\ HistRows[1].customer_name # HistRows[2].customer_name
    /\ last.ret[1].historical_customer_id = HistRows[1].customer_id

\* C23: merging an already merged source into another target is not
\* rejected: for distinct A, B, C, merge_customers(A, C) directly after
\* merge_customers(A, B) returns 0, overwrites A.merged_into with C while A
\* stays archived, and moves no row: the rows the first call moved still
\* reference B, none references C that did not before.
C23_RemergeOverwrites ==
    [][(/\ IsMerge(last) /\ IsMerge(last')
        /\ Src(last') = Src(last) /\ Src(last) \in Customers
        /\ Cardinality({Src(last), Tgt(last), Tgt(last')}) = 3)
          => /\ last'.ret = 0
             /\ dim_customer[Src(last)] = [archived |-> "true", merged_into |-> Tgt(last)]
             /\ dim_customer'[Src(last)] = [archived |-> "true", merged_into |-> Tgt(last')]
             /\ UNCHANGED <<fct_invoice, fct_sales_line>>
             /\ NoRefs(Src(last))
             /\ Cardinality(Refs(fct_invoice', Tgt(last)))
                   + Cardinality(Refs(fct_sales_line', Tgt(last))) >= last.ret]_vars

C23_Witness ==
    /\ IsMerge(last) /\ last.after = "merge_customers" /\ last.ret = 0
    /\ Src(last) \in Customers /\ Tgt(last) \in Customers
    /\ dim_customer[Src(last)].merged_into = Tgt(last)
    /\ NoRefs(Tgt(last))
    /\ Cardinality(Refs(fct_invoice, NumCustomers + 1))
          + Cardinality(Refs(fct_sales_line, NumCustomers + 1)) = NumInvoices + NumSalesLines
    /\ dim_customer[Tgt(last)].merged_into = NULL

\* C24: a merge of a record into itself is not rejected:
\* merge_customers(A, A) returns the number of fct_invoice and fct_sales_line
\* rows that reference A, leaves all of them referencing A, and sets
\* A.archived = true and A.merged_into = A; the same call repeated returns
\* the same count again, not 0.
C24_SelfMerge ==
    [][(IsMerge(last') /\ Src(last') = Tgt(last'))
          => LET A == Src(last')
             IN  /\ last'.ret = Cardinality(Refs(fct_invoice, A))
                                  + Cardinality(Refs(fct_sales_line, A))
                 /\ UNCHANGED <<fct_invoice, fct_sales_line, dim_product>>
                 /\ \A c \in Customers :
                       dim_customer'[c] = IF c = A THEN [archived |-> "true", merged_into |-> A]
                                          ELSE dim_customer[c]
                 /\ (IsMerge(last) /\ last.args = last'.args) => last'.ret = last.ret]_vars

C24_Witness ==
    /\ IsMerge(last) /\ Src(last) = Tgt(last) /\ last.after = "merge_customers"
    /\ last.ret = 2
    /\ Cardinality(Refs(fct_invoice, Src(last))) + Cardinality(Refs(fct_sales_line, Src(last))) = 2
    /\ dim_customer[Src(last)] = [archived |-> "true", merged_into |-> Src(last)]

\* C25: for two names whose normalized forms are non-empty and different,
\* calculate_similarity is at most 0.4 + 0.3 + 0.2 + 0.03 = 0.93, below the
\* clamp at 1.0, and classify_match does not return 'exact' for it; the tier
\* of a score is 'exact' if and only if the two normalized names are non-empty
\* and identical, and the score is then exactly 1.0.
C25_ExactOnlyWhenIdentical ==
    last.op = "calculate_similarity" =>
        LET norm1 == normalize_customer_name(last.args[1])
            norm2 == normalize_customer_name(last.args[2])
        IN  /\ (norm1 # <<>> /\ norm2 # <<>> /\ norm1 # norm2)
                  => /\ ScoreLeq(last.ret, <<93, 100>>)
                     /\ classify_match(last.ret) # "exact"
            /\ classify_match(last.ret) = "exact"
                  <=> (norm1 # <<>> /\ norm1 = norm2)
            /\ classify_match(last.ret) = "exact" => last.ret = <<1, 1>>

C25_Witness ==
    /\ last.op = "calculate_similarity"
    /\ last.args[1] # last.args[2]
    /\ normalize_customer_name(last.args[1]) = normalize_customer_name(last.args[2])
    /\ normalize_customer_name(last.args[1]) # <<>>
    /\ last.ret = <<1, 1>>

\* the matches returned for the Xero row x
MatchesOf(x) ==
    {i \in 1..Len(last.ret) : last.ret[i].xero_customer_id = XeroRows[x].customer_id}

\* the candidates of the Xero row x whose score is at least min_score
MeetingThreshold(x) ==
    {k \in Candidates(XeroRows[x].customer_id) :
        ScoreLeq(MinScore, calculate_similarity(XeroRows[x].customer_name,
                                                HistRows[k].customer_name))}

\* the candidates of the Xero row x with a score above 0.0
ScoringAboveZero(x) ==
    {k \in Candidates(XeroRows[x].customer_id) :
        ScoreLt(<<0, 1>>, calculate_similarity(XeroRows[x].customer_name,
                                               HistRows[k].customer_name))}

\* C26 as stated: for every min_score in [0, 1], 0 included, a Xero record
\* with a non-empty name for which some eligible historical record scores at
\* least min_score gets exactly one match.
C26_MatchWhenThresholdMet ==
    IsMatchCall =>
        \A x \in 1..Len(XeroRows) :
            (HasName(XeroRows[x]) /\ MeetingThreshold(x) # {})
                => Cardinality(MatchesOf(x)) = 1

\* C26: a Xero record with a non-empty name gets exactly one match when some
\* eligible historical record (different id, non-empty name) has a
\* calculate_similarity that is at least min_score and above 0.0, and no
\* match otherwise; for min_score > 0 that is whenever some eligible record
\* scores at least min_score.
C26_MatchWhenPositive ==
    IsMatchCall =>
        \A x \in 1..Len(XeroRows) :
            HasName(XeroRows[x]) =>
                /\ Cardinality(MatchesOf(x)) =
                      IF MeetingThreshold(x) \cap ScoringAboveZero(x) # {} THEN 1 ELSE 0
                /\ (ScoreLt(<<0, 1>>, MinScore) /\ MeetingThreshold(x) # {})
                      => Cardinality(MatchesOf(x)) = 1

C26_Witness ==
    /\ IsMatchCall /\ MinScore = <<0, 1>>
    /\ Len(XeroRows) = 2 /\ Len(last.ret) = 1
    /\ \A x \in 1..Len(XeroRows) : HasName(XeroRows[x]) /\ MeetingThreshold(x) # {}
    /\ \E x \in 1..Len(XeroRows) : ScoringAboveZero(x) = {}

\* C27: in every state reached from a store without merged records by
\* merge_customers calls with source # target, a customer whose merged_into
\* is set is referenced by no fct_invoice and no fct_sales_line row.
C27_MergedHasNoRows ==
    \A c \in Customers : dim_customer[c].merged_into # NULL => NoRefs(c)

\* the row after differs from the row before in its customer_id at most, and
\* differs only by a merge_customers call whose source is the row's customer
OnlyRepointedByMerge(before, after) ==
    /\ after = [before EXCEPT !.customer_id = after.customer_id]
    /\ after.customer_id # before.customer_id
          => IsMerge(last') /\ Src(last') = before.customer_id

\* C28: no merge, archive or unarchive operation inserts or deletes anything:
\* the set of customer records, the set of product records and the numbers of
\* fct_invoice and fct_sales_line rows stay what they were initially, and the
\* customer_id of a row changes only in a merge_customers call whose source is
\* the row's current customer.
C28_NothingInsertedOrDeleted ==
    [][/\ DOMAIN dim_customer' = Customers /\ DOMAIN dim_customer = Customers
       /\ DOMAIN dim_product' = Products /\ DOMAIN dim_product = Products
       /\ DOMAIN fct_invoice' = 1..NumInvoices /\ DOMAIN fct_invoice = 1..NumInvoices
       /\ DOMAIN fct_sales_line' = 1..NumSalesLines
       /\ DOMAIN fct_sales_line = 1..NumSalesLines
       /\ \A r \in 1..NumInvoices : OnlyRepointedByMerge(fct_invoice[r], fct_invoice'[r])
       /\ \A r \in 1..NumSalesLines :
             OnlyRepointedByMerge(fct_sales_line[r], fct_sales_line'[r])]_vars

C28_Witness ==
    /\ IsMerge(last) /\ last.ret = 1 /\ Src(last) # Tgt(last)
    /\ last.after \in {"archive_customers_by_ids", "archive_customers_by_date",
                       "unarchive_customer"}
    /\ Cardinality(Refs(fct_invoice, Tgt(last)))
          + Cardinality(Refs(fct_sales_line, Tgt(last))) = NumInvoices + NumSalesLines

\* a record that was merged away and has had no row put back on it
MergedAway(c) == dim_customer[c].merged_into # NULL /\ NoRefs(c)

\* C29: a merged customer that is restored is eligible for archiving again:
\* merge_customers(A, B) with A # B leaves A merged and without rows, which
\* lasts until a merge targets A; unarchive_customer(A) sets archived to
\* false; and from then on, for every cutoff date d,
\* get_customers_to_archive(d) returns A, get_archive_preview(d) counts it and
\* archive_customers_by_date(d) sets A.archived = true again.
C29_RestoredIsArchivable ==
    [][/\ (IsMerge(last') /\ Src(last') # Tgt(last') /\ Src(last') \in Customers)
             => /\ dim_customer'[Src(last')].merged_into = Tgt(last')
                /\ Refs(fct_invoice', Src(last')) = {}
                /\ Refs(fct_sales_line', Src(last')) = {}
       /\ \A A \in Customers :
             MergedAway(A) =>
                /\ ~(IsMerge(last') /\ Tgt(last') = A)
                      => /\ dim_customer'[A].merged_into # NULL
                         /\ Refs(fct_invoice', A) = {}
                         /\ Refs(fct_sales_line', A) = {}
                /\ (last'.op = "unarchive_customer" /\ last'.args[1] = A)
                      => /\ dim_customer'[A].archived = "false"
                         /\ \A d \in CutoffDates :
                               CustomerToArchive(dim_customer', fct_invoice',
                                                 fct_sales_line', A, d)
                /\ dim_customer[A].archived = "false"
                      => /\ last'.op = "get_customers_to_archive" => A \in last'.ret
                         /\ last'.op = "get_archive_preview" => last'.ret[1] >= 1
                         /\ last'.op = "archive_customers_by_date"
                               => /\ dim_customer'[A].archived = "true"
                                  /\ last'.ret >= 1]_vars

C29_Witness ==
    /\ last.op = "archive_customers_by_date" /\ last.after = "get_customers_to_archive"
    /\ last.ret = 1
    /\ \E A \in Customers :
          /\ dim_customer[A].merged_into \in Customers \ {A}
          /\ dim_customer[A].archived = "true"
          /\ NoRefs(A)
          /\ \A c \in Customers \ {A} :
                /\ dim_customer[c].merged_into = NULL /\ ~NoRefs(c)
                /\ NotArchived(dim_customer[c].archived)

\* C30: when two process_queue runs execute concurrently on separate
\* connections, every report_queue item is processed and emailed by at most
\* one of them.
C30_EmailedByOneRun ==
    \A i \in Items : Cardinality({n \in DOMAIN outbox : outbox[n].id = i}) <= 1


====
